---- MODULE Spec2Model ----
(***************************************************************************)
(* TeslaPiCAN (src/main.py): a CAN bus reader that dispatches every        *)
(* received frame to the subscribers of a CANBusSubscriber registry, and a *)
(* scheduler (flick_volume) that periodically sends an assert/release pair *)
(* of frames.  Both run as asyncio tasks on one event loop.                *)
(*                                                                         *)
(* Three specifications over the same definitions:                         *)
(*   Spec          the program as main() wires it;                         *)
(*   RegistrySpec  the CANBusSubscriber class driven by an arbitrary       *)
(*                 client, callbacks that re-enter the registry included;  *)
(*   MapperSpec    create_signal_dict applied to arbitrary messages and    *)
(*                 specified maps.                                         *)
(***************************************************************************)
EXTENDS Integers, Sequences, FiniteSets, TLC

VARIABLES
    subscribers,   \* CANBusSubscriber.subscribers (a Python list)
    flickPc,       \* where the flick_volume task stands
    signals,       \* flick_volume's local dict `signals`
    flickSleep,    \* milliseconds of the asyncio.sleep flick_volume is suspended in
    flickError,    \* the exception that ended flick_volume, or "none"
    sent,          \* the frames bus.send has put on the bus, oldest first
    readPc,        \* where the read_can_messages task stands
    message,       \* read_can_messages' local `message`
    idx,           \* position of the list iterator of notify_subscribers
    calls,         \* log of the subscriber invocations, oldest first
    nRecv,         \* number of frames bus.recv has returned
    readError,     \* the exception that ended read_can_messages, or "none"
    clientPc,      \* RegistrySpec: where the registry's client stands
    lastCall,      \* RegistrySpec: the last subscribe/unsubscribe call
    before,        \* RegistrySpec: the listener list before that call
    regError,      \* RegistrySpec: an exception raised by subscribe/unsubscribe
    snapshot,      \* RegistrySpec: the listener list when the dispatch began
    removed,       \* RegistrySpec: callbacks unsubscribed during the dispatch
    nMut,          \* RegistrySpec: registry calls made from inside the dispatch
    volume_message,\* flick_volume's local `volume_message`, from the database
    encoded,       \* the maps flick_volume has passed to encode, oldest first
    mainPc,        \* where main stands
    build          \* MapperSpec: a call of create_signal_dict and its result

vars == <<subscribers, flickPc, signals, flickSleep, flickError, sent, readPc,
          message, idx, calls, nRecv, readError, clientPc, lastCall, before,
          regError, snapshot, removed, nMut, volume_message, encoded, mainPc,
          build>>

progVars == <<flickPc, signals, flickSleep, flickError, sent, readPc, nRecv, readError>>

regVars == <<clientPc, lastCall, before, regError, snapshot, removed, nMut>>

restVars == <<volume_message, mainPc, build>>

(***************************************************************************)
(* Bounds of the model.                                                    *)
(***************************************************************************)
\* scheduler cycles explored
MaxCycles == 2

\* frames the bus delivers to the reader
MaxFrames == 2

\* opaque callback identities the registry's client owns
NumCallbacks == 3

\* subscribe/unsubscribe calls a single dispatch may make from its callbacks
MaxReentrant == 2
MaxSignals == 3        \* MapperSpec: signals a message declares at most

(***************************************************************************)
(* Program constants.                                                      *)
(***************************************************************************)
ID3C2VCLEFT_SWITCHSTATUS_ID == 962

\* seconds
VOLUME_FLICK_INTERVAL == 10

\* seconds
VOLUME_FLICK_JITTER == 2

\* 0x321 and 0x3d8, the keys of SIGNALS_TO_PRINT
ID321 == 801

ID3D8 == 984

\* an id the database does not hold
UnknownId == 2047

\* asyncio.sleep(0.01) between the two frames, in milliseconds
ReleaseDelayMs == 10

SIGNALS_TO_PRINT ==
    << <<ID321, <<"VCFRONT_brakeFluidLevel", "VCFRONT_coolantLevel">> >>,
       <<ID3D8, <<"Elevation3D8">> >> >>

(***************************************************************************)
(* Python values.  A positional argument keeps its run-time type, so that  *)
(* an attribute access on the wrong type is an AttributeError.             *)
(***************************************************************************)
IntV(n) == [type |-> "int", v |-> n, data |-> "-"]

StrV(s) == [type |-> "str", v |-> 0, data |-> s]

\* a can.Message: `v` is arbitration_id, `data` the class of its payload:
\* "valid", or the exception class cantools raises when decoding it
MessageV(id, payload) == [type |-> "Message", v |-> id, data |-> payload]

PayloadKinds == {"valid", "DecodeError", "ValueError"}

\* the ids of the messages the DBC file declares, as far as the program names them
DatabaseIds == {ID321, ID3D8, ID3C2VCLEFT_SWITCHSTATUS_ID}

\* the frames the bus may deliver
Frames ==
    {MessageV(id, p) : id \in DatabaseIds, p \in PayloadKinds}
        \cup {MessageV(UnknownId, "valid")}

\* the result of a call: the exception it raised ("none" when it returned) and
\* what it wrote to its log or to stdout
Returned(out) == [raised |-> "none", output |-> out]

Raised(exc) == [raised |-> exc, output |-> "none"]

(***************************************************************************)
(* CANBusSubscriber                                                        *)
(***************************************************************************)
InList(x, list) == \E i \in 1..Len(list) : list[i] = x

\* list.remove(x): deletes the first occurrence; ValueError when there is none
ListRemove(list, x) ==
    IF InList(x, list)
        THEN LET first == CHOOSE i \in 1..Len(list) :
                              list[i] = x /\ \A j \in 1..(i - 1) : list[j] # x
             IN  [raised |-> "none",
                  list |-> SubSeq(list, 1, first - 1) \o SubSeq(list, first + 1, Len(list))]
        ELSE [raised |-> "ValueError", list |-> list]

\* subscribe without the membership test of line 63
subscribeAlwaysAppends(list, callback) == Append(list, callback)

subscribe(list, callback) ==
    IF ~InList(callback, list) THEN Append(list, callback) ELSE list

\* unsubscribe without the membership test of line 67
unsubscribeUnguarded(list, callback) == ListRemove(list, callback)

unsubscribe(list, callback) ==
    IF InList(callback, list)
        THEN ListRemove(list, callback)
        ELSE [raised |-> "none", list |-> list]

(***************************************************************************)
(* The decoding subscribers                                                *)
(***************************************************************************)
\* dbc.decode_message(frame_id, data): KeyError for an id the database does
\* not hold, else the outcome the payload decides
decode_message(frame_id, data) ==
    IF frame_id \notin DatabaseIds THEN "KeyError"
    ELSE IF data = "valid" THEN "decoded"
    ELSE data

\* log_frames without the handler of lines 134-135
log_framesWithoutUnknownHandler(msg) ==
    IF msg.type # "Message" THEN Raised("AttributeError")
    ELSE LET r == decode_message(msg.v, msg.data)
         IN  IF r = "decoded" THEN Returned("info:Received message")
             ELSE IF r = "DecodeError" THEN Returned("debug:Decode error+Raw message")
             ELSE Raised(r)

log_frames(msg) ==
    IF msg.type # "Message" THEN Raised("AttributeError")
    ELSE LET r == decode_message(msg.v, msg.data)
         IN  IF r = "decoded" THEN Returned("info:Received message")
             ELSE IF r = "DecodeError" THEN Returned("debug:Decode error+Raw message")
             ELSE Returned("debug:Received unknown message")

\* print_signal(dbc, message, can_id, signal_name)
print_signal(msg, can_id, signal_name) ==
    IF msg.type # "Message" THEN Raised("AttributeError")
    ELSE IF can_id.type = "int" /\ msg.v = can_id.v
        THEN LET r == decode_message(msg.v, msg.data)
             IN  IF r = "decoded" THEN Returned("print:signal value")
                 ELSE IF r = "DecodeError" THEN Returned("print:Decode error")
                 ELSE IF r = "KeyError" THEN Returned("print:Signal not found")
                 ELSE Raised(r)
        ELSE Returned("none")

\* a callback: the function and the positional arguments bound to it
LogFramesLambda == [func |-> "log_frames", args |-> << >>]

\* functools.partial(print_signal, dbc, frame, signal); dbc is left out of args
PrintSignalPartial(frame, signal) ==
    [func |-> "print_signal", args |-> <<IntV(frame), StrV(signal)>>]

\* an opaque callback of the registry's client
ClientCallback(n) == [func |-> "callback", args |-> <<IntV(n)>>]

\* callback(message): the bound arguments come first, the frame last
Invoke(callback, msg) ==
    LET a == callback.args \o <<msg>>
    IN  IF callback.func = "log_frames" THEN log_frames(a[1])
        ELSE IF callback.func = "print_signal" THEN print_signal(a[1], a[2], a[3])
        ELSE Returned("none")

\* the callbacks main registers, in the order it registers them
RECURSIVE PartialsOf(_, _)
PartialsOf(frame, names) ==
    IF names = << >> THEN << >>
    ELSE <<PrintSignalPartial(frame, Head(names))>> \o PartialsOf(frame, Tail(names))

RECURSIVE MainCallbacks(_)
MainCallbacks(items) ==
    IF items = << >> THEN << >>
    ELSE PartialsOf(Head(items)[1], Head(items)[2]) \o MainCallbacks(Tail(items))

RECURSIVE SubscribeAll(_, _)
SubscribeAll(list, callbacks) ==
    IF callbacks = << >> THEN list
    ELSE SubscribeAll(subscribe(list, Head(callbacks)), Tail(callbacks))

MainSubscribers ==
    SubscribeAll(<< >>, <<LogFramesLambda>> \o MainCallbacks(SIGNALS_TO_PRINT))

(***************************************************************************)
(* create_signal_dict and the encoding of the volume message               *)
(***************************************************************************)
\* `multiplexer_ids is None` is the empty sequence (cantools gives None or a
\* non-empty list)
NoIds == << >>

\* dbc.get_message_by_frame_id(0x3c2): the signals of the switch-status
\* message, in declaration order
VolumeMessage ==
    << [name |-> "VCLEFT_switchStatusIndex", is_multiplexer |-> TRUE,
        multiplexer_ids |-> NoIds, length |-> 2, is_signed |-> FALSE],
       [name |-> "VCLEFT_hazardButtonPressed", is_multiplexer |-> FALSE,
        multiplexer_ids |-> <<0>>, length |-> 1, is_signed |-> FALSE],
       [name |-> "VCLEFT_swcLeftScrollTicks", is_multiplexer |-> FALSE,
        multiplexer_ids |-> <<1>>, length |-> 6, is_signed |-> TRUE],
       [name |-> "VCLEFT_swcRightScrollTicks", is_multiplexer |-> FALSE,
        multiplexer_ids |-> <<1>>, length |-> 6, is_signed |-> TRUE] >>

TargetSignal == "VCLEFT_swcLeftScrollTicks"

SignalNames(msg) == {msg[i].name : i \in 1..Len(msg)}

\* next((s for s in message.signals if s.is_multiplexer), None): the index of
\* the first multiplexer signal, 0 for None
MultiplexerSignal(msg) ==
    IF \E i \in 1..Len(msg) : msg[i].is_multiplexer
        THEN CHOOSE i \in 1..Len(msg) :
                 msg[i].is_multiplexer /\ \A j \in 1..(i - 1) : ~msg[j].is_multiplexer
        ELSE 0

\* the loop with `if multiplexer_value is None:` around line 93: the first
\* specified signal with multiplexer_ids keeps the candidate
RECURSIVE SignalLoopFirstWins(_, _, _, _)
SignalLoopFirstWins(msg, specified, i, acc) ==
    IF i > Len(msg) THEN acc
    ELSE LET signal == msg[i]
             named == signal.name \in DOMAIN specified
             withValue == IF named
                              THEN [acc.signals EXCEPT ![signal.name] = specified[signal.name]]
                              ELSE acc.signals
             records == named /\ signal.multiplexer_ids # NoIds /\ ~acc.has_value
         IN  SignalLoopFirstWins(msg, specified, i + 1,
                 [signals |-> withValue,
                  has_value |-> IF records THEN TRUE ELSE acc.has_value,
                  value |-> IF records THEN signal.multiplexer_ids[1] ELSE acc.value])

\* the loop of lines 89-93 from signal i on; acc is [signals, has_value, value]
\* (has_value is `multiplexer_value is not None`); `specified` is a dict, of
\* which the loop uses membership and lookup only
RECURSIVE SignalLoop(_, _, _, _)
SignalLoop(msg, specified, i, acc) ==
    IF i > Len(msg) THEN acc
    ELSE LET signal == msg[i]
             named == signal.name \in DOMAIN specified
             withValue == IF named
                              THEN [acc.signals EXCEPT ![signal.name] = specified[signal.name]]
                              ELSE acc.signals
             records == named /\ signal.multiplexer_ids # NoIds
         IN  SignalLoop(msg, specified, i + 1,
                 [signals |-> withValue,
                  has_value |-> IF records THEN TRUE ELSE acc.has_value,
                  value |-> IF records THEN signal.multiplexer_ids[1] ELSE acc.value])

\* create_signal_dict that leaves a multiplexer named in `specified` alone
create_signal_dictExplicitWins(msg, specified, default_value) ==
    LET init == [n \in SignalNames(msg) |-> default_value]
        multiplexer_signal == MultiplexerSignal(msg)
        done == SignalLoop(msg, specified, 1,
                           [signals |-> init, has_value |-> FALSE, value |-> 0])
    IN  IF /\ multiplexer_signal # 0
           /\ done.has_value
           /\ msg[multiplexer_signal].name \notin DOMAIN specified
            THEN [done.signals EXCEPT ![msg[multiplexer_signal].name] = done.value]
            ELSE done.signals

\* create_signal_dict that writes the candidate to the first signal of a
\* message without a multiplexer
create_signal_dictFirstSignalSelects(msg, specified, default_value) ==
    LET init == [n \in SignalNames(msg) |-> default_value]
        multiplexer_signal == IF MultiplexerSignal(msg) = 0 /\ Len(msg) > 0
                                  THEN 1 ELSE MultiplexerSignal(msg)
        done == SignalLoop(msg, specified, 1,
                           [signals |-> init, has_value |-> FALSE, value |-> 0])
    IN  IF multiplexer_signal # 0 /\ done.has_value
            THEN [done.signals EXCEPT ![msg[multiplexer_signal].name] = done.value]
            ELSE done.signals

\* create_signal_dict with `signals.update(specified_signals)` for line 91
create_signal_dictUpdate(msg, specified, default_value) ==
    LET multiplexer_signal == MultiplexerSignal(msg)
        done == SignalLoop(msg, specified, 1,
                           [signals |-> [n \in SignalNames(msg) |-> default_value],
                            has_value |-> FALSE, value |-> 0])
        updated == [n \in SignalNames(msg) \cup DOMAIN specified |->
                       IF n \in DOMAIN specified THEN specified[n] ELSE default_value]
    IN  IF multiplexer_signal # 0 /\ done.has_value
            THEN [updated EXCEPT ![msg[multiplexer_signal].name] = done.value]
            ELSE updated

\* create_signal_dict with multiplexer_value initialised to 0 instead of None
create_signal_dictZeroCandidate(msg, specified, default_value) ==
    LET init == [n \in SignalNames(msg) |-> default_value]
        multiplexer_signal == MultiplexerSignal(msg)
        done == SignalLoop(msg, specified, 1,
                           [signals |-> init, has_value |-> TRUE, value |-> 0])
    IN  IF multiplexer_signal # 0 /\ done.has_value
            THEN [done.signals EXCEPT ![msg[multiplexer_signal].name] = done.value]
            ELSE done.signals

create_signal_dict(msg, specified, default_value) ==
    LET init == [n \in SignalNames(msg) |-> default_value]
        multiplexer_signal == MultiplexerSignal(msg)
        done == SignalLoop(msg, specified, 1,
                           [signals |-> init, has_value |-> FALSE, value |-> 0])
    IN  IF multiplexer_signal # 0 /\ done.has_value
            THEN [done.signals EXCEPT ![msg[multiplexer_signal].name] = done.value]
            ELSE done.signals

RECURSIVE Pow2(_)
Pow2(n) == IF n = 0 THEN 1 ELSE 2 * Pow2(n - 1)

\* volume_message.encode(signals): the raw field of every signal, in
\* declaration order; a signal that is not selected by the multiplexer's value
\* is not packed, a signed value is stored in two's complement
encode(msg, sig) ==
    LET m == MultiplexerSignal(msg)
        selected(s) == \/ s.multiplexer_ids = NoIds
                       \/ m = 0
                       \/ \E k \in 1..Len(s.multiplexer_ids) :
                              s.multiplexer_ids[k] = sig[msg[m].name]
    IN  [i \in 1..Len(msg) |->
            IF selected(msg[i]) THEN sig[msg[i].name] % Pow2(msg[i].length) ELSE 0]

\* whether volume_message.encode(signals) succeeds: every signal the
\* multiplexer's value selects holds a value its field can store
EncodeFits(msg, sig) ==
    LET m == MultiplexerSignal(msg)
        selected(s) == \/ s.multiplexer_ids = NoIds
                       \/ m = 0
                       \/ \E k \in 1..Len(s.multiplexer_ids) :
                              s.multiplexer_ids[k] = sig[msg[m].name]
        fits(s, v) == IF s.is_signed
                          THEN -Pow2(s.length - 1) <= v /\ v < Pow2(s.length - 1)
                          ELSE 0 <= v /\ v < Pow2(s.length)
    IN  \A i \in 1..Len(msg) : selected(msg[i]) => fits(msg[i], sig[msg[i].name])

\* the position of the target signal in the switch-status message
TargetIndex ==
    CHOOSE k \in 1..Len(VolumeMessage) : VolumeMessage[k].name = TargetSignal

\* what the database file may declare for 0x3c2: the message as above, the
\* target as an unsigned field (-1 does not fit), the target as a one-bit
\* signed field (+1 does not fit)
VolumeMessages ==
    { VolumeMessage,
      [VolumeMessage EXCEPT ![TargetIndex].is_signed = FALSE],
      [VolumeMessage EXCEPT ![TargetIndex].length = 1] }

\* can.Message(arbitration_id=..., data=bytearray(encoded_data), is_extended_id=False)
CanFrame(id, data) == [arbitration_id |-> id, data |-> data, is_extended_id |-> FALSE]

(***************************************************************************)
(* flick_volume                                                            *)
(***************************************************************************)
\* the event loop runs one task at a time: the reader holds it while it is
\* inside bus.recv() or inside a dispatch
LoopFree == readPc \notin {"recv", "dispatch"}

\* random.randint(0, 2000 * VOLUME_FLICK_JITTER)
Randint == 0..(2000 * VOLUME_FLICK_JITTER)

\* the interval with the division by 1000 of line 105 left out
IntervalMsWithoutDivision(r) ==
    1000 * VOLUME_FLICK_INTERVAL + (1000 * r - 1000 * VOLUME_FLICK_JITTER)

\* lines 105-106 in milliseconds: (r / 1000 - J) s is (r - 1000 * J) ms
IntervalMs(r) == 1000 * VOLUME_FLICK_INTERVAL + (r - 1000 * VOLUME_FLICK_JITTER)

\* lines 105-108: draw the jitter and suspend in asyncio.sleep(interval)
FlickSleeps ==
    \E r \in Randint :
        /\ flickSleep' = IntervalMs(r)
        /\ flickPc' = "sleeping"

\* lines 102-108: the task's first run, up to its first await
FlickBegin ==
    /\ flickPc = "start"
    /\ signals' = create_signal_dict(volume_message, [n \in {TargetSignal} |-> -1], 0)
    /\ FlickSleeps
    /\ UNCHANGED <<subscribers, flickError, sent, readPc, message, idx, calls,
                   nRecv, readError, regVars, encoded, restVars>>

\* flick_volume without line 112: the assert phase encodes the dict as the
\* cycle before left it
FlickAssertWithoutReset ==
    /\ flickPc = "sleeping"
    /\ LoopFree
    /\ Len(sent) < 2 * MaxCycles
    /\ EncodeFits(volume_message, signals)
    /\ encoded' = Append(encoded, signals)
    /\ sent' = Append(sent, CanFrame(ID3C2VCLEFT_SWITCHSTATUS_ID,
                                     encode(volume_message, signals)))
    /\ flickSleep' = ReleaseDelayMs
    /\ flickPc' = "delay"
    /\ UNCHANGED <<subscribers, signals, flickError, readPc, message, idx, calls,
                   nRecv, readError, regVars, restVars>>

\* lines 110-116: the sleep is over; assert the target and send
FlickAssert ==
    /\ flickPc = "sleeping"
    /\ LoopFree
    /\ Len(sent) < 2 * MaxCycles
    /\ LET asserted == [signals EXCEPT ![TargetSignal] = -1]
       IN  /\ EncodeFits(volume_message, asserted)
           /\ signals' = asserted
           /\ encoded' = Append(encoded, asserted)
           /\ sent' = Append(sent, CanFrame(ID3C2VCLEFT_SWITCHSTATUS_ID,
                                            encode(volume_message, asserted)))
    /\ flickSleep' = ReleaseDelayMs
    /\ flickPc' = "delay"
    /\ UNCHANGED <<subscribers, flickError, readPc, message, idx, calls, nRecv,
                   readError, regVars, restVars>>

\* flick_volume with the two transmissions collapsed into one: no release frame
FlickReleaseWithoutSend ==
    /\ flickPc = "delay"
    /\ LoopFree
    /\ signals' = [signals EXCEPT ![TargetSignal] = 1]
    /\ FlickSleeps
    /\ UNCHANGED <<subscribers, flickError, sent, readPc, message, idx, calls, nRecv,
                   readError, regVars, encoded, restVars>>

\* lines 118-121 and 105-108: the short delay is over; release the target,
\* send, and go to sleep for the next interval
FlickRelease ==
    /\ flickPc = "delay"
    /\ LoopFree
    /\ LET released == [signals EXCEPT ![TargetSignal] = 1]
       IN  /\ EncodeFits(volume_message, released)
           /\ signals' = released
           /\ encoded' = Append(encoded, released)
           /\ sent' = Append(sent, CanFrame(ID3C2VCLEFT_SWITCHSTATUS_ID,
                                            encode(volume_message, released)))
    /\ FlickSleeps
    /\ UNCHANGED <<subscribers, flickError, readPc, message, idx, calls, nRecv,
                   readError, regVars, restVars>>

\* lines 115 and 121: bus.send raises can.CanError; nothing catches it, and
\* the task ends
FlickSendError ==
    /\ flickPc \in {"sleeping", "delay"}
    /\ LoopFree
    /\ Len(sent) < 2 * MaxCycles
    /\ LET passed == [signals EXCEPT
                         ![TargetSignal] = IF flickPc = "sleeping" THEN -1 ELSE 1]
       IN  /\ EncodeFits(volume_message, passed)
           /\ signals' = passed
           /\ encoded' = Append(encoded, passed)
    /\ flickPc' = "terminated"
    /\ flickError' = "CanError"
    /\ flickSleep' = 0
    /\ UNCHANGED <<subscribers, sent, readPc, message, idx, calls, nRecv,
                   readError, regVars, restVars>>

\* lines 113 and 119: a value does not fit its signal and encode raises
\* cantools' EncodeError; nothing catches it, and the task ends
FlickEncodeError ==
    /\ flickPc \in {"sleeping", "delay"}
    /\ LoopFree
    /\ Len(sent) < 2 * MaxCycles
    /\ LET passed == [signals EXCEPT
                         ![TargetSignal] = IF flickPc = "sleeping" THEN -1 ELSE 1]
       IN  /\ ~EncodeFits(volume_message, passed)
           /\ signals' = passed
           /\ encoded' = Append(encoded, passed)
    /\ flickPc' = "terminated"
    /\ flickError' = "EncodeError"
    /\ flickSleep' = 0
    /\ UNCHANGED <<subscribers, sent, readPc, message, idx, calls, nRecv,
                   readError, regVars, restVars>>

(***************************************************************************)
(* read_can_messages                                                       *)
(***************************************************************************)
\* lines 76-77: the task runs (for the first time after flick_volume, which
\* was created first) and calls bus.recv(); without a timeout recv returns
\* only when a frame has arrived, and the task keeps the event loop until then
ReadPoll ==
    /\ readPc \in {"start", "yield"}
    /\ flickPc # "start"
    /\ readPc' = "recv"
    /\ UNCHANGED <<subscribers, flickPc, signals, flickSleep, flickError, sent,
                   message, idx, calls, nRecv, readError, regVars, encoded, restVars>>

\* lines 77-79: a frame arrives and recv returns it; a can.Message is truthy,
\* so notify_subscribers starts to iterate
ReadRecv ==
    /\ readPc = "recv"
    /\ nRecv < MaxFrames
    /\ \E f \in Frames : message' = f
    /\ nRecv' = nRecv + 1
    /\ idx' = 0
    /\ readPc' = "dispatch"
    /\ UNCHANGED <<subscribers, flickPc, signals, flickSleep, flickError, sent,
                   calls, readError, regVars, encoded, restVars>>

\* line 77: bus.recv raises can.CanError; nothing catches it, and the task ends
ReadRecvError ==
    /\ readPc = "recv"
    /\ readPc' = "terminated"
    /\ readError' = "CanError"
    /\ UNCHANGED <<subscribers, flickPc, signals, flickSleep, flickError, sent,
                   message, idx, calls, nRecv, regVars, encoded, restVars>>

\* an entry of the call log
CallRecord(callback, n, msg, result) ==
    [callback |-> callback, frame |-> n, msg |-> msg,
     raised |-> result.raised, output |-> result.output]

\* lines 71-72 and 80: the list iterator yields the element at its index and
\* the callback runs to its end; an exception leaves notify_subscribers and
\* read_can_messages; when the iterator is exhausted the task suspends in
\* asyncio.sleep(0.000001)
ReadNotify ==
    /\ readPc = "dispatch"
    /\ IF idx < Len(subscribers)
           THEN LET result == Invoke(subscribers[idx + 1], message)
                IN  /\ calls' = Append(calls,
                                   CallRecord(subscribers[idx + 1], nRecv, message, result))
                    /\ idx' = idx + 1
                    /\ readPc' = IF result.raised = "none" THEN "dispatch" ELSE "terminated"
                    /\ readError' = result.raised
           ELSE /\ readPc' = "yield"
                /\ UNCHANGED <<calls, idx, readError>>
    /\ UNCHANGED <<subscribers, flickPc, signals, flickSleep, flickError, sent,
                   message, nRecv, regVars, encoded, restVars>>

(***************************************************************************)
(* main                                                                    *)
(***************************************************************************)
NoMessage == [type |-> "None", v |-> 0, data |-> "-"]

NoCall == [op |-> "none", callback |-> ClientCallback(0)]

\* no call of create_signal_dict under observation
NoBuild ==
    [pc |-> "none", message |-> << >>, specified |-> << >>, default_value |-> 0,
     result |-> << >>]

\* main with asyncio.gather(..., return_exceptions=False): the first exception
\* of a task leaves gather and main
MainReturnsOnFirstException ==
    /\ mainPc = "gather"
    /\ flickPc = "terminated" \/ readPc = "terminated"
    /\ mainPc' = "returned"
    /\ UNCHANGED <<subscribers, progVars, message, idx, calls, regVars, encoded,
                   volume_message, build>>

\* line 165: gather(..., return_exceptions=True) collects a task's exception
\* as its result and returns when both tasks are done; then main returns
MainReturns ==
    /\ mainPc = "gather"
    /\ flickPc = "terminated"
    /\ readPc = "terminated"
    /\ mainPc' = "returned"
    /\ UNCHANGED <<subscribers, progVars, message, idx, calls, regVars, encoded,
                   volume_message, build>>

\* lines 151-163: the database is loaded, the registry holds main's callbacks
\* and both tasks are created
Init ==
    /\ subscribers = MainSubscribers
    /\ flickPc = "start"
    /\ signals = << >>
    /\ flickSleep = 0
    /\ flickError = "none"
    /\ sent = << >>
    /\ readPc = "start"
    /\ message = NoMessage
    /\ idx = 0
    /\ calls = << >>
    /\ nRecv = 0
    /\ readError = "none"
    /\ clientPc = "off"
    /\ lastCall = NoCall
    /\ before = << >>
    /\ regError = "none"
    /\ snapshot = << >>
    /\ removed = {}
    /\ nMut = 0
    /\ volume_message \in VolumeMessages
    /\ encoded = << >>
    /\ mainPc = "gather"
    /\ build = NoBuild

Next ==
    \/ FlickBegin
    \/ FlickAssert
    \/ FlickRelease
    \/ FlickSendError
    \/ FlickEncodeError
    \/ MainReturns
    \/ ReadPoll
    \/ ReadRecv
    \/ ReadRecvError
    \/ ReadNotify

Spec == Init /\ [][Next]_vars

(***************************************************************************)
(* The registry under an arbitrary client.  The client calls subscribe,    *)
(* unsubscribe and notify_subscribers in any order with callbacks of its   *)
(* own; a callback may return, raise, or call subscribe/unsubscribe on the *)
(* registry that is dispatching to it.                                     *)
(***************************************************************************)
Callbacks == {ClientCallback(n) : n \in 1..NumCallbacks}

\* the frame the client dispatches
ClientFrame == MessageV(ID321, "valid")

\* subscriber.subscribe(c), and the record of the call
DoSubscribe(c) ==
    /\ before' = subscribers
    /\ subscribers' = subscribe(subscribers, c)
    /\ lastCall' = [op |-> "subscribe", callback |-> c]
    /\ regError' = "none"

\* subscriber.unsubscribe(c), and the record of the call
DoUnsubscribe(c) ==
    LET r == unsubscribe(subscribers, c)
    IN  /\ before' = subscribers
        /\ subscribers' = r.list
        /\ lastCall' = [op |-> "unsubscribe", callback |-> c]
        /\ regError' = r.raised

\* the record of the last dispatch is dropped when the client moves on
DispatchForgotten ==
    /\ message' = NoMessage
    /\ idx' = 0
    /\ calls' = << >>
    /\ snapshot' = << >>
    /\ removed' = {}
    /\ nMut' = 0

RegSubscribe ==
    /\ clientPc \in {"idle", "returned", "raised"}
    /\ regError = "none"
    /\ \E c \in Callbacks : DoSubscribe(c)
    /\ clientPc' = "idle"
    /\ DispatchForgotten
    /\ UNCHANGED <<progVars, encoded, restVars>>

RegUnsubscribe ==
    /\ clientPc \in {"idle", "returned", "raised"}
    /\ regError = "none"
    /\ \E c \in Callbacks : DoUnsubscribe(c)
    /\ clientPc' = "idle"
    /\ DispatchForgotten
    /\ UNCHANGED <<progVars, encoded, restVars>>

\* line 71: notify_subscribers is called and creates the iterator of the list
RegNotify ==
    /\ clientPc \in {"idle", "returned", "raised"}
    /\ regError = "none"
    /\ clientPc' = "notifying"
    /\ message' = ClientFrame
    /\ idx' = 0
    /\ calls' = << >>
    /\ snapshot' = subscribers
    /\ removed' = {}
    /\ nMut' = 0
    /\ UNCHANGED <<progVars, encoded, restVars, subscribers, lastCall, before, regError>>

\* the call log with the callback the iterator yields now
Yielded(result) ==
    Append(calls, CallRecord(subscribers[idx + 1], 1, message, result))

\* lines 71-72: the iterator yields the element at its index of the list as it
\* is now, and the callback returns; or the iterator is exhausted and
\* notify_subscribers returns
RegNotifyStep ==
    /\ clientPc = "notifying"
    /\ IF idx < Len(subscribers)
           THEN /\ calls' = Yielded(Invoke(subscribers[idx + 1], message))
                /\ idx' = idx + 1
                /\ clientPc' = "notifying"
           ELSE /\ clientPc' = "returned"
                /\ UNCHANGED <<calls, idx>>
    /\ UNCHANGED <<progVars, encoded, restVars, subscribers, message, lastCall, before, regError,
                   snapshot, removed, nMut>>

\* line 72: the callback raises, and the exception leaves notify_subscribers
RegCallbackRaises ==
    /\ clientPc = "notifying"
    /\ idx < Len(subscribers)
    /\ calls' = Yielded(Raised("Exception"))
    /\ idx' = idx + 1
    /\ clientPc' = "raised"
    /\ UNCHANGED <<progVars, encoded, restVars, subscribers, message, lastCall, before, regError,
                   snapshot, removed, nMut>>

\* line 72: the callback subscribes a callback (itself or another) and returns
RegCallbackSubscribes ==
    /\ clientPc = "notifying"
    /\ idx < Len(subscribers)
    /\ nMut < MaxReentrant
    /\ \E c \in Callbacks : DoSubscribe(c)
    /\ calls' = Yielded(Returned("none"))
    /\ idx' = idx + 1
    /\ nMut' = nMut + 1
    /\ UNCHANGED <<progVars, encoded, restVars, message, clientPc, snapshot, removed>>

\* line 72: the callback unsubscribes a callback (itself or another) and returns
RegCallbackUnsubscribes ==
    /\ clientPc = "notifying"
    /\ idx < Len(subscribers)
    /\ nMut < MaxReentrant
    /\ \E c \in Callbacks :
           /\ DoUnsubscribe(c)
           /\ removed' = IF InList(c, subscribers) THEN removed \cup {c} ELSE removed
    /\ calls' = Yielded(Returned("none"))
    /\ idx' = idx + 1
    /\ nMut' = nMut + 1
    /\ UNCHANGED <<progVars, encoded, restVars, message, clientPc, snapshot>>

\* CANBusSubscriber(): an empty listener list; no task of the program runs
RegistryInit ==
    /\ subscribers = << >>
    /\ flickPc = "off"
    /\ signals = << >>
    /\ flickSleep = 0
    /\ flickError = "none"
    /\ sent = << >>
    /\ readPc = "off"
    /\ message = NoMessage
    /\ idx = 0
    /\ calls = << >>
    /\ nRecv = 0
    /\ readError = "none"
    /\ clientPc = "idle"
    /\ lastCall = NoCall
    /\ before = << >>
    /\ regError = "none"
    /\ snapshot = << >>
    /\ removed = {}
    /\ nMut = 0
    /\ volume_message = VolumeMessage
    /\ encoded = << >>
    /\ mainPc = "off"
    /\ build = NoBuild

RegistryNext ==
    \/ RegSubscribe
    \/ RegUnsubscribe
    \/ RegNotify
    \/ RegNotifyStep
    \/ RegCallbackRaises
    \/ RegCallbackSubscribes
    \/ RegCallbackUnsubscribes

RegistrySpec == RegistryInit /\ [][RegistryNext]_vars

(***************************************************************************)
(* MapperSpec: create_signal_dict called with any message of at most       *)
(* MaxSignals signals and any dict over its names and one more             *)
(***************************************************************************)
\* signal names in declaration order, and a name no message declares
DeclaredNames == <<"s1", "s2", "s3", "s4", "s5">>
UndeclaredName == "x"

\* what a signal may hold in multiplexer_ids: None or a non-empty list
SelectorIds == {NoIds, <<0>>, <<1>>, <<2, 1>>}

\* the values of `specified_signals` and of `default_value`
SpecifiedValues == {-1, 7}
DefaultValues == {0, 3}

\* a signal is the multiplexer (which is under no selector) or is not
SignalKinds ==
    {k \in [is_multiplexer : BOOLEAN, multiplexer_ids : SelectorIds] :
        k.is_multiplexer => k.multiplexer_ids = NoIds}

\* message.signals: distinct names, at most one multiplexer
Messages ==
    UNION { { [i \in 1..n |->
                 [name |-> DeclaredNames[i], is_multiplexer |-> k[i].is_multiplexer,
                  multiplexer_ids |-> k[i].multiplexer_ids, length |-> 8,
                  is_signed |-> TRUE]] :
              k \in {f \in [1..n -> SignalKinds] :
                        Cardinality({i \in 1..n : f[i].is_multiplexer}) <= 1} } :
            n \in 0..MaxSignals }

\* the dicts over the declared names and the undeclared one
Specifieds(msg) ==
    UNION { [names -> SpecifiedValues] :
            names \in SUBSET (SignalNames(msg) \cup {UndeclaredName}) }

\* line 83: create_signal_dict is entered
MapperInit ==
    /\ \E msg \in Messages : \E specified \in Specifieds(msg) : \E d \in DefaultValues :
           build = [pc |-> "called", message |-> msg, specified |-> specified,
                    default_value |-> d, result |-> << >>]
    /\ subscribers = << >>
    /\ flickPc = "off"
    /\ signals = << >>
    /\ flickSleep = 0
    /\ flickError = "none"
    /\ sent = << >>
    /\ readPc = "off"
    /\ message = NoMessage
    /\ idx = 0
    /\ calls = << >>
    /\ nRecv = 0
    /\ readError = "none"
    /\ clientPc = "off"
    /\ lastCall = NoCall
    /\ before = << >>
    /\ regError = "none"
    /\ snapshot = << >>
    /\ removed = {}
    /\ nMut = 0
    /\ volume_message = VolumeMessage
    /\ encoded = << >>
    /\ mainPc = "off"

\* lines 84-98: the call returns its dict
MapperReturn ==
    /\ build.pc = "called"
    /\ build' = [build EXCEPT
                    !.pc = "returned",
                    !.result = create_signal_dict(build.message, build.specified,
                                                  build.default_value)]
    /\ UNCHANGED <<subscribers, progVars, message, idx, calls, regVars, encoded,
                   volume_message, mainPc>>

MapperNext == MapperReturn

MapperSpec == MapperInit /\ [][MapperNext]_vars

(***************************************************************************)
(* Properties                                                              *)
(***************************************************************************)
\* the positions of the call log that belong to frame n
CallsOf(n) == {i \in DOMAIN calls : calls[i].frame = n}

\* how often callback c was invoked for frame n
Count(c, n) == Cardinality({i \in CallsOf(n) : calls[i].callback = c})

\* the dispatch of the frame received last is over
DispatchEnded == nRecv >= 1 /\ readPc # "dispatch"

NoDuplicates(list) ==
    \A i, j \in 1..Len(list) : list[i] = list[j] => i = j

\* the value of the target signal carried by a sent frame: its raw field,
\* read back as a signed number of the signal's length
TargetOf(frame) ==
    LET i == TargetIndex
        raw == frame.data[i]
        half == Pow2(volume_message[i].length - 1)
    IN  IF raw >= half THEN raw - 2 * half ELSE raw

\* C1: every subscriber call made for a received frame returns normally, and
\* no exception of a subscriber ends read_can_messages.
C1_SubscriberErrorsNeverEndReadLoop ==
    /\ \A i \in DOMAIN calls : calls[i].raised = "none"
    /\ readPc = "terminated" => readError = "CanError"

\* the frames sent so far alternate assert, release on the switch-status id,
\* and the scheduler's place agrees with their number
C2_Alternation ==
    /\ \A i \in 1..Len(sent) :
           /\ sent[i].arbitration_id = ID3C2VCLEFT_SWITCHSTATUS_ID
           /\ TargetOf(sent[i]) = IF i % 2 = 1 THEN -1 ELSE 1
    /\ flickPc = "sleeping" => Len(sent) % 2 = 0
    /\ flickPc = "delay" => Len(sent) % 2 = 1 /\ flickSleep = ReleaseDelayMs

\* a step that sends appends one frame: the assert on leaving the interval
\* sleep, the release on leaving the short delay
C2_SendSteps ==
    sent' # sent =>
        /\ Len(sent') = Len(sent) + 1
        /\ SubSeq(sent', 1, Len(sent)) = sent
        /\ \/ flickPc = "sleeping" /\ flickPc' = "delay"
              /\ TargetOf(sent'[Len(sent')]) = -1
           \/ flickPc = "delay" /\ flickPc' = "sleeping"
              /\ TargetOf(sent'[Len(sent')]) = 1

\* C2: the frames sent on the bus all carry the switch-status id and alternate
\* assert (target -1), release (target +1), beginning with assert; a sleep for
\* an interval begins only when every assert has been followed by its release,
\* and the task waits in the short delay exactly between an assert and its
\* release.  Each step that sends a frame sends one frame: the assert when the
\* interval sleep ends, the release when the short delay ends.
C2_AssertThenRelease == [](C2_Alternation) /\ [][C2_SendSteps]_vars

\* C2 witness: two whole cycles have been sent while the reader was at work.
C2_TwoCyclesSent ==
    /\ Len(sent) = 4
    /\ flickPc = "sleeping"
    /\ nRecv >= 1

\* C3: while the scheduler waits in one of its sleeps and the reader is
\* polling the transport, the scheduler's wake-up is able to run, whether or
\* not a frame arrives.
C3_SchedulerProgressesWithoutFrames ==
    (/\ readPc = "recv"
     /\ flickPc \in {"sleeping", "delay"}
     /\ Len(sent) < 2 * MaxCycles)
        => ENABLED (FlickAssert \/ FlickRelease)

\* C4: the listener list never holds a callback twice; subscribing a callback
\* that is registered leaves the list as it was; and a dispatch that returned
\* and was not re-entered has invoked every registered callback exactly once.
C4_NoDuplicateListeners ==
    /\ NoDuplicates(subscribers)
    /\ (lastCall.op = "subscribe" /\ InList(lastCall.callback, before))
           => subscribers = before
    /\ (lastCall.op = "subscribe" /\ ~InList(lastCall.callback, before))
           => subscribers = Append(before, lastCall.callback)
    /\ (clientPc = "returned" /\ nMut = 0)
           => \A i \in 1..Len(snapshot) : Count(snapshot[i], 1) = 1

\* C4 witness: a callback was subscribed a second time and a dispatch over
\* two or more listeners has returned.
C4_SubscribedTwiceThenDispatched ==
    /\ lastCall.op = "subscribe"
    /\ InList(lastCall.callback, before)
    /\ clientPc = "returned"
    /\ nMut = 0
    /\ Len(calls) >= 2

\* C5: unsubscribe never raises; it leaves a list that does not hold the
\* callback unchanged, and otherwise removes that one entry and keeps the
\* other callbacks in their order.
C5_UnsubscribeIdempotent ==
    lastCall.op = "unsubscribe" =>
        /\ regError = "none"
        /\ ~InList(lastCall.callback, subscribers)
        /\ subscribers = SelectSeq(before, LAMBDA x : x # lastCall.callback)
        /\ Len(subscribers) =
               Len(before) - (IF InList(lastCall.callback, before) THEN 1 ELSE 0)
        /\ ~InList(lastCall.callback, before) => subscribers = before

\* C5 witness: a callback was removed from between two others.
C5_RemovedFromTheMiddle ==
    /\ lastCall.op = "unsubscribe"
    /\ Len(before) = 3
    /\ before[2] = lastCall.callback
    /\ regError = "none"

\* C6: when the dispatch of a frame is over, the callbacks invoked for it are
\* the registered callbacks, each once, in registration order.
C6_DispatchInvokesAllInOrder ==
    DispatchEnded =>
        /\ Cardinality(CallsOf(nRecv)) = Len(subscribers)
        /\ \A i \in 1..Len(subscribers) :
               \E k \in CallsOf(nRecv) :
                   /\ calls[k].callback = subscribers[i]
                   /\ Cardinality({j \in CallsOf(nRecv) : j <= k}) = i

\* C7: when a dispatch returns, every callback that was registered when it
\* began and was not unsubscribed during it has been invoked exactly once, and
\* no callback has been invoked twice.
C7_ReentrantDispatchIntact ==
    clientPc = "returned" =>
        \A c \in Callbacks :
            /\ (InList(c, snapshot) /\ c \notin removed) => Count(c, 1) = 1
            /\ Count(c, 1) <= 1

\* C8: every frame bus.recv returned, once its dispatch is over, has been
\* given to every registered subscriber.
C8_NoFrameDropped ==
    \A n \in 1..nRecv :
        (n < nRecv \/ DispatchEnded) =>
            \A i \in 1..Len(subscribers) : Count(subscribers[i], n) >= 1

\* C9 as stated: a frame with an id the database does not hold reaches the
\* frame logger and is dispatched to no signal printer.
C9_NoDispatchToPrinters ==
    /\ \A i \in DOMAIN calls :
           calls[i].msg.v \notin DatabaseIds => calls[i].callback.func # "print_signal"
    /\ (DispatchEnded /\ message.v \notin DatabaseIds)
           => Count(LogFramesLambda, nRecv) = 1

\* C9 amended: a frame with an id the database does not hold reaches the frame
\* logger, which returns normally having logged it as unknown; no subscriber
\* produces decoded output for it; and the read loop, which does not filter by
\* id, has also invoked a signal printer with it when its dispatch is over.
C9_UnknownIdDispatchedUndecoded ==
    /\ \A i \in DOMAIN calls :
           calls[i].msg.v \notin DatabaseIds =>
               /\ calls[i].callback.func = "log_frames" =>
                      /\ calls[i].raised = "none"
                      /\ calls[i].output = "debug:Received unknown message"
               /\ calls[i].output \notin {"info:Received message", "print:signal value"}
    /\ (DispatchEnded /\ message.v \notin DatabaseIds) =>
           /\ Count(LogFramesLambda, nRecv) = 1
           /\ \E k \in CallsOf(nRecv) : calls[k].callback.func = "print_signal"

\* C9 witness: the dispatch of a frame with an unknown id is over.
C9_UnknownIdFrameProcessed ==
    /\ DispatchEnded
    /\ message.v \notin DatabaseIds
    /\ Len(calls) >= 2

\* C10: every interval the scheduler sleeps lies within VOLUME_FLICK_JITTER
\* seconds of VOLUME_FLICK_INTERVAL, in whole milliseconds, and wherever the
\* scheduler draws an interval both ends of that range can be drawn.
C10_JitterBound ==
    LET lo == 1000 * (VOLUME_FLICK_INTERVAL - VOLUME_FLICK_JITTER)
        hi == 1000 * (VOLUME_FLICK_INTERVAL + VOLUME_FLICK_JITTER)
    IN  /\ flickPc = "sleeping" => (lo <= flickSleep /\ flickSleep <= hi)
        /\ flickPc = "start" =>
               /\ ENABLED (FlickBegin /\ flickSleep' = lo)
               /\ ENABLED (FlickBegin /\ flickSleep' = hi)
        /\ (/\ flickPc = "delay"
            /\ LoopFree
            /\ EncodeFits(volume_message, [signals EXCEPT ![TargetSignal] = 1])) =>
               /\ ENABLED (FlickRelease /\ flickSleep' = lo)
               /\ ENABLED (FlickRelease /\ flickSleep' = hi)

\* C10 witness: the second interval drawn is the longest one.
C10_LongestIntervalDrawn ==
    /\ flickPc = "sleeping"
    /\ Len(sent) = 2
    /\ flickSleep = 1000 * (VOLUME_FLICK_INTERVAL + VOLUME_FLICK_JITTER)

\* the call under observation has returned, for a message with a multiplexer
ReturnedWithMultiplexer ==
    build.pc = "returned" /\ MultiplexerSignal(build.message) # 0

\* the name of the multiplexer of the message under observation
MultiplexerName == build.message[MultiplexerSignal(build.message)].name

\* the declaration positions of the specified signals that declare
\* multiplexer_ids
SpecifiedWithIds ==
    {i \in 1..Len(build.message) :
        /\ build.message[i].name \in DOMAIN build.specified
        /\ build.message[i].multiplexer_ids # NoIds}

\* the last of them in declaration order
LastWithIds == CHOOSE i \in SpecifiedWithIds : \A j \in SpecifiedWithIds : j <= i

\* C11: when exactly one specified signal declares multiplexer_ids, the
\* multiplexer of the returned dict holds the first of that signal's ids,
\* whatever value `specified` gives the multiplexer and wherever it is declared
C11_SingleSelectorWins ==
    (ReturnedWithMultiplexer /\ Cardinality(SpecifiedWithIds) = 1) =>
        build.result[MultiplexerName] = build.message[LastWithIds].multiplexer_ids[1]

\* a multiplexer declared after the one selecting signal and given another
\* value in `specified`
C11_ExplicitValueOverridden ==
    /\ ReturnedWithMultiplexer
    /\ Cardinality(SpecifiedWithIds) = 1
    /\ MultiplexerSignal(build.message) > LastWithIds
    /\ MultiplexerName \in DOMAIN build.specified
    /\ build.specified[MultiplexerName] # build.message[LastWithIds].multiplexer_ids[1]
    /\ build.result[MultiplexerName] = build.message[LastWithIds].multiplexer_ids[1]

\* C12: for a message without a multiplexer every declared signal of the
\* returned dict has its specified value if `specified` names it and
\* default_value otherwise
C12_NoMultiplexerFrame ==
    (build.pc = "returned" /\ MultiplexerSignal(build.message) = 0) =>
        \A n \in SignalNames(build.message) :
            build.result[n] = IF n \in DOMAIN build.specified
                                  THEN build.specified[n]
                                  ELSE build.default_value

\* no multiplexer, a candidate selector recorded from the second signal, the
\* first signal left at a default that differs from the candidate
C12_CandidateWithoutMultiplexer ==
    /\ build.pc = "returned"
    /\ MultiplexerSignal(build.message) = 0
    /\ SpecifiedWithIds # {}
    /\ LastWithIds > 1
    /\ build.message[1].name \notin DOMAIN build.specified
    /\ build.result[build.message[1].name] = build.default_value
    /\ build.default_value # build.message[LastWithIds].multiplexer_ids[1]

\* create_signal_dict returns exactly the declared names, for every message
\* and every dict of the bounded input sets, a dict that names an undeclared
\* signal included
MapperKeysExact ==
    \A msg \in Messages : \A specified \in Specifieds(msg) : \A d \in DefaultValues :
        DOMAIN create_signal_dict(msg, specified, d) = SignalNames(msg)

\* C13: the dict create_signal_dict returns has the declared names as its
\* keys, whatever `specified` names, and so has every dict flick_volume passes
\* to encode, in the assert and in the release phase of every cycle
C13_ExactKeys ==
    /\ MapperKeysExact
    /\ flickPc \notin {"off", "start"} => DOMAIN signals = SignalNames(volume_message)
    /\ \A k \in DOMAIN encoded : DOMAIN encoded[k] = SignalNames(volume_message)

\* both phases of every cycle have encoded, and some message of the input set
\* is built from a dict that names the undeclared signal
C13_AllCyclesEncoded ==
    /\ Len(encoded) = 2 * MaxCycles
    /\ \E msg \in Messages : \E specified \in Specifieds(msg) :
           /\ UndeclaredName \in DOMAIN specified
           /\ Len(msg) >= 2
           /\ DOMAIN create_signal_dict(msg, specified, 0) = SignalNames(msg)

\* C14: when encode rejects a value the cycle is skipped and the scheduler
\* is sleeping again
C14_EncodeFailureSkipsOneCycle ==
    (encoded # << >> /\ ~EncodeFits(volume_message, encoded[Len(encoded)])) =>
        (flickPc = "sleeping" /\ flickError = "none")

\* C15: a failed bus.send leaves the scheduler running and a failed bus.recv
\* leaves the reader polling
C15_TransportErrorsSurvived ==
    /\ flickError = "CanError" => flickPc # "terminated"
    /\ readError = "CanError" => readPc # "terminated"

\* C16: when several specified signals declare multiplexer_ids, the
\* multiplexer holds the first id of the one declared last
C16_LastDeclaredWins ==
    (ReturnedWithMultiplexer /\ Cardinality(SpecifiedWithIds) >= 2) =>
        build.result[MultiplexerName] = build.message[LastWithIds].multiplexer_ids[1]

\* two specified signals whose first ids differ
C16_TwoSelectorsDisagree ==
    /\ ReturnedWithMultiplexer
    /\ Cardinality(SpecifiedWithIds) >= 2
    /\ \E i \in SpecifiedWithIds :
           build.message[i].multiplexer_ids[1] #
               build.message[LastWithIds].multiplexer_ids[1]
    /\ build.result[MultiplexerName] = build.message[LastWithIds].multiplexer_ids[1]

\* C17: when no specified signal declares multiplexer_ids the multiplexer
\* keeps its specified value, or default_value if `specified` does not name
\* it; a candidate of 0 is a candidate and is written
C17_NoCandidateNoWrite ==
    ReturnedWithMultiplexer =>
        /\ SpecifiedWithIds = {} =>
               build.result[MultiplexerName] =
                   IF MultiplexerName \in DOMAIN build.specified
                       THEN build.specified[MultiplexerName]
                       ELSE build.default_value
        /\ (/\ SpecifiedWithIds # {}
            /\ build.message[LastWithIds].multiplexer_ids[1] = 0) =>
               build.result[MultiplexerName] = 0

\* a multiplexer named in `specified`, another signal specified too, none of
\* them under a selector
C17_MultiplexerKeepsSpecifiedValue ==
    /\ ReturnedWithMultiplexer
    /\ SpecifiedWithIds = {}
    /\ Cardinality(DOMAIN build.specified \cap SignalNames(build.message)) >= 2
    /\ MultiplexerName \in DOMAIN build.specified
    /\ build.result[MultiplexerName] = build.specified[MultiplexerName]
    /\ build.result[MultiplexerName] # 0

\* C18: the dict encoded in the release phase is the one of the assert phase
\* with the target changed to 1 and nothing else, and the assert phase
\* encodes the same dict in every cycle
C18_ReleaseChangesTargetOnly ==
    \A k \in DOMAIN encoded :
        IF k % 2 = 1
            THEN /\ encoded[k] = encoded[1]
                 /\ encoded[k][TargetSignal] = -1
            ELSE encoded[k] = [encoded[k - 1] EXCEPT ![TargetSignal] = 1]

\* two full cycles have encoded, with a multiplexer value that selects the target
C18_TwoCyclesEncoded ==
    /\ Len(encoded) = 2 * MaxCycles
    /\ Len(sent) = 2 * MaxCycles
    /\ encoded[Len(encoded)] # encoded[1]
    /\ encoded[1]["VCLEFT_switchStatusIndex"] = 1

\* C19: main returns only when both tasks have ended; a reader that ended
\* with an exception leaves the scheduler able to run its next phase, and a
\* scheduler that ended leaves the reader able to poll and to receive
C19_TasksIsolated ==
    /\ mainPc = "returned" => (flickPc = "terminated" /\ readPc = "terminated")
    /\ flickPc = "terminated" => flickError \in {"CanError", "EncodeError"}
    /\ (/\ readPc = "terminated"
        /\ flickPc \in {"sleeping", "delay"}
        /\ Len(sent) < 2 * MaxCycles) =>
           ENABLED (FlickAssert \/ FlickRelease \/ FlickEncodeError)
    /\ (flickPc = "terminated" /\ readPc \in {"start", "yield"}) => ENABLED ReadPoll
    /\ (flickPc = "terminated" /\ readPc = "recv" /\ nRecv < MaxFrames) =>
           ENABLED ReadRecv

\* the reader has ended with an exception without a frame received, the
\* scheduler has run all its cycles, and main is still in gather
C19_SchedulerOutlivesReader ==
    /\ readPc = "terminated"
    /\ readError # "none"
    /\ nRecv = 0
    /\ flickPc = "sleeping"
    /\ Len(sent) = 2 * MaxCycles
    /\ mainPc = "gather"

====
